---------------------------- MODULE Spec2Model ----------------------------
(***************************************************************************)
(* A model of lint381: the token matcher (lint381/matcher.py and           *)
(* lint381/matcher/__init__.py), the tokenizer (lint381/tokenizer.py), the *)
(* Linter (lint381/linter.py), some of the functions registered with it    *)
(* (lint381/c.py, lint381/cpp.py) and main (lint381/__main__.py).          *)
(*                                                                         *)
(* Python sequences are 0-indexed; TLA+ sequences are 1-indexed.  Every    *)
(* index variable of the model (i, j, cursor, lo, hi, ...) holds the       *)
(* Python value; the operator At(s, k) reads s[k] as Python does.          *)
(***************************************************************************)
EXTENDS Integers, Sequences, FiniteSets, TLC

VARIABLES
    \* ---- one call of match_tokens(tokens, start=, end=, lookahead=, length=)
    impl,        \* which shipped implementation runs: "module" or "package"
    tokens,      \* the token sequence (each token stands for its value)
    start,       \* the start predicate, as the set of values it accepts
    end,         \* the end predicate: None, or Some(set of values)
    lookahead,   \* the lookahead argument
    length,      \* the length argument: None or Some(n)
    i,           \* the outer scan index
    j,           \* the inner scan index
    mpc,         \* position in match_tokens
    matches,     \* the slices yielded so far, each [lo, hi] for tokens[lo:hi+1]
    candidates,  \* history: every end token found by the general search
    probed,      \* history: the indices a predicate was evaluated on
    scan_point,  \* history: the value of i when the current scan began
    \* ---- one call of tokenize(code), i.e. list(_Tokenizer(code).tokenize())
    code,        \* the argument, a sequence of characters
    string,      \* _Tokenizer._string
    cursor,      \* _Tokenizer._cursor
    row,         \* _Tokenizer._row
    column,      \* _Tokenizer._column
    tpc,         \* position in tokenize
    yielded,     \* the tokens the generator has yielded so far
    result,      \* what tokenize returned: None, or Some(list of tokens)
    raised,      \* the exception tokenize raised: None, or Some(its message)
    origins,     \* history: the cursor at each entry to _get_next_token
    \* ---- one Linter and one call of its lint(filename, code)
    linters,     \* Linter.linters, the registered functions in order
    filename,    \* the filename argument
    lpc,         \* position in the linter's life
    source_code, \* the local source_code: None or Some(SourceCode)
    errors,      \* the local errors
    lint_result, \* what lint returned: None, or Some(list of errors)
    applied,     \* history: the calls of registered functions, in order
    tokenize_calls, \* history: how many times lint called tokenize
    \* ---- one call of a registered function, func(source)
    func,        \* the registered function that runs
    source,      \* its argument: None, or Some(SourceCode)
    pending,     \* the matches (or includes) its loop has yet to take
    started_system_includes,  \* the local of that name
    rule_yielded,   \* the errors the function has yielded so far
    rpc,         \* position in the function
    \* ---- one run of main(files, lang)
    lang,        \* the --lang option
    files,       \* the contents of the given files, in order
    file_index,  \* how many files the for loop has taken
    had_errors,  \* the local of that name
    echoed,      \* the diagnostics printed so far
    exit_status, \* the status the process exits with: None or Some(n)
    linted,      \* history: what lint returned for each file taken
    cpc          \* position in main

mvars == <<impl, tokens, start, end, lookahead, length, i, j, mpc, matches,
           candidates, probed, scan_point>>

tvars == <<code, string, cursor, row, column, tpc, yielded, result, raised,
           origins>>

lvars == <<linters, filename, lpc, source_code, errors, lint_result, applied,
           tokenize_calls>>

rvars == <<func, source, pending, started_system_includes, rule_yielded, rpc>>

cvars == <<lang, files, file_index, had_errors, echoed, exit_status, linted,
           cpc>>

vars == <<mvars, tvars, lvars, rvars, cvars>>

(***************************************************************************)
(* Python values                                                           *)
(***************************************************************************)
None == <<>>

Some(x) == <<x>>

Val(o) == o[1]

\* Python's len(s)
Len0(s) == Len(s)

\* Python's s[k] for an index that is in range (negative indices count from
\* the end of the sequence)
At(s, k) == IF k >= 0 THEN s[k + 1] ELSE s[Len(s) + k + 1]

\* whether Python's s[k] raises IndexError
IndexError(s, k) == ~(-Len(s) <= k /\ k < Len(s))

\* Python's s[lo:hi+1] for 0 <= lo and hi+1 <= len(s): empty when hi < lo
Slice(s, lo, hi) == IF hi < lo THEN <<>> ELSE SubSeq(s, lo + 1, hi + 1)

\* all sequences over S of length at most n
SeqsUpTo(S, n) == UNION {[1..k -> S] : k \in 0..n}

(***************************************************************************)
(* Bounds of the matcher's inputs                                          *)
(***************************************************************************)
\* longest token sequence given to the general search
MaxTokens == 5

\* longest token sequence given to the exact-length search
MaxExactTokens == 4

MaxLookahead == 1

MaxLength == 3

\* Token values.  A predicate is seen by match_tokens only through its value
\* on each token, so four values cover the four possible outcomes of the
\* pair (start(token), end(token)).
MatcherTokens == {"A", "B", "AB", "foo"}

\* the caller's start predicate: it accepts A and AB
StartPredicates == {{"A", "AB"}}

\* end is omitted, or accepts B and AB
EndPredicates == {None, Some({"B", "AB"})}

Lookaheads == 0..MaxLookahead

Lengths == {None} \cup {Some(n) : n \in 0..MaxLength}

(***************************************************************************)
(* match_tokens                                                            *)
(***************************************************************************)
\* start(token)
StartMatches(token) == token \in start

\* end(token), once `end` has been defaulted
EndMatches(token) == token \in Val(end)

\* the module's argument assertions (matcher.py only)
\* (faulty variant: the assertions are left out)
ArgumentsAsserted_NoCheck == TRUE

ArgumentsAsserted ==
    \/ impl = "package"
    \/ length = None
    \/ (Val(length) > 0 /\ lookahead = 0)

MatcherInit ==
    /\ impl \in {"module", "package"}
    /\ start \in StartPredicates
    /\ end \in EndPredicates
    /\ lookahead \in Lookaheads
    /\ length \in Lengths
    /\ tokens \in SeqsUpTo(MatcherTokens,
                           IF length = None THEN MaxTokens ELSE MaxExactTokens)
    /\ i = 0
    /\ j = 0
    /\ mpc = "call"
    /\ matches = <<>>
    /\ candidates = <<>>
    /\ probed = {}
    /\ scan_point = 0

\* `if end is None: end = start`
\* (faulty variant: an omitted end accepts every token)
DefaultEnd_AcceptsAll == IF end = None THEN Some(MatcherTokens) ELSE end

DefaultEnd == IF end = None THEN Some(start) ELSE end

\* The first resumption of the generator: default `end`, check the
\* arguments, i = 0.
match_tokens_enter ==
    /\ UNCHANGED <<tvars, lvars, rvars, cvars>>
    /\ mpc = "call"
    /\ end' = DefaultEnd
    /\ IF ArgumentsAsserted
         THEN mpc' = "while" /\ i' = 0
         ELSE mpc' = "AssertionError" /\ i' = i
    /\ UNCHANGED <<impl, tokens, start, lookahead, length, j, matches,
                   candidates, probed, scan_point>>

\* while i < len(tokens): the loop ends
match_tokens_exhausted ==
    /\ UNCHANGED <<tvars, lvars, rvars, cvars>>
    /\ mpc = "while"
    /\ ~(i < Len0(tokens))
    /\ mpc' = "done"
    /\ UNCHANGED <<impl, tokens, start, end, lookahead, length, i, j, matches,
                   candidates, probed, scan_point>>

\* start(tokens[i]) is false: i += 1
match_tokens_skip ==
    /\ UNCHANGED <<tvars, lvars, rvars, cvars>>
    /\ mpc = "while"
    /\ i < Len0(tokens)
    /\ ~StartMatches(At(tokens, i))
    /\ probed' = probed \cup {i}
    /\ i' = i + 1
    /\ UNCHANGED <<impl, tokens, start, end, lookahead, length, j, mpc,
                   matches, candidates, scan_point>>

\* The slice the exact-length path yields at (i, j), or None.
\* (faulty variant: end(end_token) is not tested)
ExactYield_NoEndCheck(ii, jj) ==
    IF jj + lookahead < Len0(tokens)
      THEN Some([lo |-> ii, hi |-> jj + lookahead])
      ELSE None

ExactYield(ii, jj) ==
    IF impl = "module"
      THEN IF EndMatches(At(tokens, jj))
             THEN Some([lo |-> ii, hi |-> jj])
             ELSE None
      ELSE IF EndMatches(At(tokens, jj)) /\ jj + lookahead < Len0(tokens)
             THEN Some([lo |-> ii, hi |-> jj + lookahead])
             ELSE None

\* the exact-length path of one outer iteration
match_tokens_exact ==
    /\ UNCHANGED <<tvars, lvars, rvars, cvars>>
    /\ mpc = "while"
    /\ i < Len0(tokens)
    /\ StartMatches(At(tokens, i))
    /\ length # None
    /\ LET jj == i + Val(length) - 1
       IN  /\ j' = jj
           /\ IF IndexError(tokens, jj)
                THEN /\ mpc' = "done"
                     /\ probed' = probed \cup {i}
                     /\ UNCHANGED <<i, matches>>
                ELSE /\ probed' = probed \cup {i, jj}
                     /\ matches' = IF ExactYield(i, jj) = None
                                     THEN matches
                                     ELSE Append(matches, Val(ExactYield(i, jj)))
                     /\ i' = i + 1
                     /\ mpc' = mpc
    /\ UNCHANGED <<impl, tokens, start, end, lookahead, length, candidates,
                   scan_point>>

\* start(tokens[i]) holds and no length was given: enter the for loop
match_tokens_scan ==
    /\ UNCHANGED <<tvars, lvars, rvars, cvars>>
    /\ mpc = "while"
    /\ i < Len0(tokens)
    /\ StartMatches(At(tokens, i))
    /\ length = None
    /\ probed' = probed \cup {i}
    /\ j' = i
    /\ mpc' = "for"
    /\ UNCHANGED <<impl, tokens, start, end, lookahead, length, i, matches,
                   candidates, scan_point>>

\* the start index after `if start(end_token): i = j`
\* (faulty variant: the start is never moved)
Rearm_Never(ii, jj) == ii

Rearm(ii, jj) == IF StartMatches(At(tokens, jj)) THEN jj ELSE ii

\* the value of i when the for loop is left through `i = j; break`, where
\* jj is j after `j += lookahead`
\* (faulty variant: i is set to the end index before its extension)
SkipTo_Unextended(jj) == jj - lookahead

SkipTo(jj) == jj

\* whether the candidate whose extended end index is jj is yielded
\* (faulty variant: the bound is not tested)
EnoughLookahead_Always(jj) == TRUE

EnoughLookahead(jj) == jj < Len0(tokens)

\* one iteration of `for j in range(i, len(tokens))`, or its exhaustion;
\* leaving the loop includes the `i += 1` that ends the outer iteration
match_tokens_for ==
    /\ UNCHANGED <<tvars, lvars, rvars, cvars>>
    /\ mpc = "for"
    /\ IF j < Len0(tokens)
         THEN LET s == Rearm(i, j)
                  e == j + lookahead
              IN  /\ probed' = probed \cup {j}
                  /\ IF EndMatches(At(tokens, j))
                       THEN /\ matches' =
                                 IF EnoughLookahead(e)
                                   THEN Append(matches, [lo |-> s, hi |-> e])
                                   ELSE matches
                            /\ candidates' =
                                 Append(candidates,
                                        [s |-> s, e |-> j, from |-> scan_point,
                                         before |-> Len(matches),
                                         after |-> Len(matches')])
                            /\ j' = e
                            /\ i' = SkipTo(e) + 1
                            /\ scan_point' = i'
                            /\ mpc' = "while"
                       ELSE /\ i' = s
                            /\ j' = j + 1
                            /\ UNCHANGED <<mpc, matches, candidates, scan_point>>
         ELSE /\ i' = i + 1
              /\ mpc' = "while"
              /\ UNCHANGED <<j, matches, candidates, probed, scan_point>>
    /\ UNCHANGED <<impl, tokens, start, end, lookahead, length>>

NextMatch ==
    \/ match_tokens_enter
    \/ match_tokens_exhausted
    \/ match_tokens_skip
    \/ match_tokens_exact
    \/ match_tokens_scan
    \/ match_tokens_for

(***************************************************************************)
(* Characters and strings                                                  *)
(***************************************************************************)
Digits == {"0", "1", "2", "3", "4", "5", "6", "7", "8", "9"}

Letters ==
    {"_", "a", "b", "c", "d", "e", "f", "g", "h", "i", "j", "k", "l",
     "m", "n", "o", "p", "q", "r", "s", "t", "u", "v", "w", "x", "y",
     "z", "A", "B", "C", "D", "E", "F", "G", "H", "I", "J", "K", "L",
     "M", "N", "O", "P", "Q", "R", "S", "T", "U", "V", "W", "X", "Y",
     "Z"}

\* str.isspace(), on the characters the inputs are drawn from
IsSpace(ch) == ch \in {" ", "\t", "\n", "\r", "\f"}

\* the text a sequence of characters spells
RECURSIVE Join(_)
Join(cs) == IF cs = <<>> THEN "" ELSE Head(cs) \o Join(Tail(cs))

(***************************************************************************)
(* Bounds of the tokenizer's inputs                                        *)
(***************************************************************************)
\* longest input drawn from an alphabet
MaxCode == 4

\* operators, an identifier character and a blank
OperatorChars == {"a", "=", ">", "+", " "}

\* string literals, comments and line breaks
LiteralChars == {"a", "\n", "\"", "/", "*"}

\* string and character literals with escapes
EscapeChars == {"a", "\n", "\"", "'", "\\"}

\* identifiers and preprocessor directives
DirectiveChars == {"#", "x", "1", " "}

\* the operators of more than one character that C has
MultiCharOperators ==
    {<<"=", "=">>, <<"!", "=">>, <<"<", "=">>, <<">", "=">>,
     <<"&", "&">>, <<"|", "|">>,
     <<"+", "=">>, <<"-", "=">>, <<"*", "=">>, <<"/", "=">>, <<"%", "=">>,
     <<"&", "=">>, <<"|", "=">>, <<"^", "=">>,
     <<"<", "<", "=">>, <<">", ">", "=">>, <<"<", "<">>, <<">", ">">>}

OperatorExamples == {<<"a">> \o op \o <<"b">> : op \in MultiCharOperators}

\* the inputs of the repository's tests
Example_a_eq_b == <<"a", "=", "=", "b">>

Example_foo_eq_bar == <<"f", "o", "o", " ", "=", "=", " ", "b", "a", "r">>

Example_main ==
    <<"i", "n", "t", " ", "m", "a", "i", "n", "(", ")", " ", "{", "\n", "}", "\n">>

\* an input with a tab in it
Example_tab == <<"a", "\t", "b">>

\* The backtick, a character that no pattern matches.  A TLA+ string cannot
\* hold a backtick, so the character is written @, which no pattern matches
\* either.
Backtick == "@"

Example_backtick == <<Backtick>>

\* "foo\"bar\\baz"
Example_backslash ==
    <<"\"", "f", "o", "o", "\\", "\"", "b", "a", "r", "\\", "\\", "b", "a",
      "z", "\"">>

\* foo, a line break, and a comment of two lines
Example_multiline_comment ==
    <<"f", "o", "o", "\n", "/", "*", " ", "b", "a", "r", "\n", "b", "a", "z",
      " ", "*", "/">>

\* a declaration, then a line comment with code in it
Example_line_comment ==
    <<"a", ";", "\n", "/", "/", " ", "c", ":", " ", "a", ";">>

Example_x == <<"x">>

Example_define == <<"#", "d", "e", "f", "i", "n", "e">>

\* #define _x
Example_define_macro == Example_define \o <<" ", "_", "x">>

\* the words of the keyword pattern, spelt out
KeywordWords ==
    {<<"a", "u", "t", "o">>,
     <<"b", "r", "e", "a", "k">>,
     <<"c", "a", "s", "e">>,
     <<"c", "h", "a", "r">>,
     <<"c", "o", "n", "s", "t">>,
     <<"c", "o", "n", "t", "i", "n", "u", "e">>,
     <<"d", "e", "f", "a", "u", "l", "t">>,
     <<"d", "o">>,
     <<"d", "o", "u", "b", "l", "e">>,
     <<"e", "l", "s", "e">>,
     <<"e", "n", "u", "m">>,
     <<"e", "x", "t", "e", "r", "n">>,
     <<"f", "l", "o", "a", "t">>,
     <<"f", "o", "r">>,
     <<"g", "o", "t", "o">>,
     <<"i", "f">>,
     <<"i", "n", "t">>,
     <<"l", "o", "n", "g">>,
     <<"r", "e", "g", "i", "s", "t", "e", "r">>,
     <<"r", "e", "t", "u", "r", "n">>,
     <<"s", "h", "o", "r", "t">>,
     <<"s", "i", "g", "n", "e", "d">>,
     <<"s", "i", "z", "e", "o", "f">>,
     <<"s", "t", "a", "t", "i", "c">>,
     <<"s", "t", "r", "u", "c", "t">>,
     <<"s", "w", "i", "t", "c", "h">>,
     <<"t", "y", "p", "e", "d", "e", "f">>,
     <<"u", "n", "i", "o", "n">>,
     <<"u", "n", "s", "i", "g", "n", "e", "d">>,
     <<"v", "o", "i", "d">>,
     <<"v", "o", "l", "a", "t", "i", "l", "e">>,
     <<"w", "h", "i", "l", "e">>}

\* each keyword alone, and as the beginning of a longer word
KeywordExamples == KeywordWords \cup {w \o <<"x">> : w \in KeywordWords}

CodeInputs ==
    SeqsUpTo(OperatorChars, MaxCode) \cup SeqsUpTo(LiteralChars, MaxCode)
       \cup SeqsUpTo(EscapeChars, MaxCode)
       \cup SeqsUpTo(DirectiveChars, MaxCode)
       \cup OperatorExamples
       \cup KeywordExamples
       \cup {Example_a_eq_b, Example_foo_eq_bar, Example_main, Example_tab,
             Example_backtick, Example_backslash, Example_multiline_comment,
             Example_line_comment, Example_x, Example_define,
             Example_define_macro}

(***************************************************************************)
(* _Tokenizer: the cursor                                                  *)
(***************************************************************************)
\* A cursor state st is [cursor, row, column].
\* _char()
char(st) == At(string, st.cursor)

\* _advance_cursor()
\* (faulty variant: the column is not reset at a line break)
advance_cursor_NoColumnReset(st) ==
    IF char(st) = "\n"
      THEN [cursor |-> st.cursor + 1, row |-> st.row + 1, column |-> st.column + 1]
      ELSE [cursor |-> st.cursor + 1, row |-> st.row, column |-> st.column + 1]

advance_cursor(st) ==
    IF char(st) = "\n"
      THEN [cursor |-> st.cursor + 1, row |-> st.row + 1, column |-> 0]
      ELSE [cursor |-> st.cursor + 1, row |-> st.row, column |-> st.column + 1]

\* n calls of _advance_cursor()
RECURSIVE AdvanceBy(_, _)
AdvanceBy(st, n) == IF n <= 0 THEN st ELSE AdvanceBy(advance_cursor(st), n - 1)

\* whether the assertions of _position() hold
PositionAsserted(st) ==
    /\ 0 <= st.row /\ st.row < Len(string)
    /\ 0 <= st.column /\ st.column < Len(string)

\* _position()
position(st) == [row |-> st.row, column |-> st.column]

\* Position.line_display: "line {row + 1}, column {column + 1}"
\* (faulty variant: the row and column are shown as they are)
line_display_ZeroIndexed(pos) == [line |-> pos.row, column |-> pos.column]

line_display(pos) == [line |-> pos.row + 1, column |-> pos.column + 1]

\* the message of a ValueError: its text and the position it names
Message(text, st) == [text |-> text, at |-> line_display(position(st))]

\* _consume_whitespace(): [more, st]
RECURSIVE consume_whitespace(_)
consume_whitespace(st) ==
    IF st.cursor < Len(string)
      THEN IF IsSpace(char(st))
             THEN consume_whitespace(advance_cursor(st))
             ELSE [more |-> TRUE, st |-> st]
      ELSE [more |-> FALSE, st |-> st]

\* self._string[lo:hi + 1], as text
Text(lo, hi) == Join(Slice(string, lo, hi))

(***************************************************************************)
(* _Tokenizer: string literals and block comments                          *)
(* A consumer returns [kind |-> "none"], [kind |-> "token", token, st] with *)
(* st the cursor on the token's last character, or                         *)
(* [kind |-> "ValueError", message, st].                                   *)
(***************************************************************************)
\* `if self._char() == "\\": self._advance_cursor()`, the cursor being on a
\* backslash
\* (faulty variant: the cursor stays on the backslash)
SkipBackslash_Not(st) == st

SkipBackslash(st) == advance_cursor(st)

\* the while loop of _consume_string: [closed, st]
RECURSIVE StringLoop(_, _)
StringLoop(st, quote) ==
    IF st.cursor < Len(string)
      THEN IF char(st) = "\\"
             THEN StringLoop(advance_cursor(SkipBackslash(st)), quote)
             ELSE IF char(st) = quote
                    THEN [closed |-> TRUE, st |-> st]
                    ELSE StringLoop(advance_cursor(st), quote)
      ELSE [closed |-> FALSE, st |-> st]

consume_string(st) ==
    IF char(st) \notin {"\"", "'"}
      THEN [kind |-> "none"]
      ELSE LET quote == char(st)
               r == StringLoop(advance_cursor(st), quote)
           IN  IF r.closed
                 THEN [kind |-> "token",
                       token |-> [type |-> "string",
                                  value |-> Text(st.cursor, r.st.cursor),
                                  start |-> position(st),
                                  end |-> position(r.st)],
                       st |-> r.st]
                 ELSE [kind |-> "ValueError",
                       message |-> Message("Unterminated string literal", r.st),
                       st |-> r.st]

\* peek_two(): self._string[cursor:cursor + 2]
peek_two(st) ==
    Text(st.cursor, IF st.cursor + 1 < Len(string) THEN st.cursor + 1
                                                   ELSE Len(string) - 1)

\* the while loop of _consume_multiline_comment: [closed, st]
RECURSIVE CommentLoop(_)
CommentLoop(st) ==
    IF st.cursor < Len(string)
      THEN IF peek_two(st) = "*/"
             THEN [closed |-> TRUE, st |-> advance_cursor(st)]
             ELSE CommentLoop(advance_cursor(st))
      ELSE [closed |-> FALSE, st |-> st]

consume_multiline_comment(st) ==
    IF peek_two(st) # "/*"
      THEN [kind |-> "none"]
      ELSE LET r == CommentLoop(st)
           IN  IF r.closed
                 THEN [kind |-> "token",
                       token |-> [type |-> "comment",
                                  value |-> Text(st.cursor, r.st.cursor),
                                  start |-> position(st),
                                  end |-> position(r.st)],
                       st |-> r.st]
                 ELSE [kind |-> "ValueError",
                       message |-> Message("Unterminated multiline comment",
                                           r.st),
                       st |-> r.st]

(***************************************************************************)
(* _Tokenizer._TOKEN_PATTERNS, as re.VERBOSE compiles them.  A pattern     *)
(* applied at index c gives None, or Some(text) for what match.group()     *)
(* returns: alternatives are tried in order and the first that matches     *)
(* wins, quantifiers are greedy.                                           *)
(***************************************************************************)
\* the character at index c, "" past the end of _string
CharAt(c) == IF c < Len(string) THEN At(string, c) ELSE ""

\* how many consecutive characters from index c lie in the class S
RECURSIVE Run(_, _)
Run(c, S) == IF CharAt(c) \in S THEN 1 + Run(c + 1, S) ELSE 0

\* how many consecutive characters from index c `.` matches (all but "\n")
RECURSIVE RunOfDot(_)
RunOfDot(c) ==
    IF c < Len(string) /\ CharAt(c) # "\n" THEN 1 + RunOfDot(c + 1) ELSE 0

\* whether the literal text lit stands at index c
Stands(lit, c) ==
    /\ c + Len(lit) <= Len(string)
    /\ Text(c, c + Len(lit) - 1) = lit

\* a1 | a2 | ... at index c
RECURSIVE FirstAlternative(_, _)
FirstAlternative(alts, c) ==
    IF alts = <<>> THEN None
    ELSE IF Stands(Head(alts), c) THEN Some(Head(alts))
    ELSE FirstAlternative(Tail(alts), c)

\* [0-9]+(\.?[0-9]*)
NumberPattern(c) ==
    LET n == Run(c, Digits)
        d == IF CharAt(c + n) = "." THEN 1 ELSE 0
        m == Run(c + n + d, Digits)
    IN  IF n = 0 THEN None ELSE Some(Text(c, c + n + d + m - 1))

KeywordAlternatives ==
    <<"auto", "break", "case", "char", "const", "continue",
      "default", "do", "double", "else", "enum", "extern",
      "float", "for", "goto", "if", "int", "long",
      "register", "return", "short", "signed", "sizeof", "static",
      "struct", "switch", "typedef", "union", "unsigned", "void",
      "volatile", "while">>

KeywordPattern(c) == FirstAlternative(KeywordAlternatives, c)

\* [#]?[_a-zA-Z]([_a-zA-Z0-9]+)?
\* (faulty variant: without the leading [#]?)
IdentifierPattern_NoDirective(c) ==
    IF CharAt(c) \in Letters
      THEN Some(Text(c, c + Run(c + 1, Letters \cup Digits)))
      ELSE None

IdentifierPattern(c) ==
    LET h == IF CharAt(c) = "#" THEN 1 ELSE 0
    IN  IF CharAt(c + h) \in Letters
          THEN Some(Text(c, c + h + Run(c + h + 1, Letters \cup Digits)))
          ELSE None

\* //.+
CommentPattern(c) ==
    IF Stands("//", c) /\ RunOfDot(c + 2) >= 1
      THEN Some(Text(c, c + 1 + RunOfDot(c + 2)))
      ELSE None

UnaryAlternatives == <<"++", "--", "!", "~">>

UnaryOperatorPattern(c) == FirstAlternative(UnaryAlternatives, c)

\* The two-character operators.  In the source no `|` follows `>=`, so
\* `>=` and `\+=` make up the one alternative `>=\+=`; the `|` after `>>`
\* leaves an empty last alternative.
BinaryAlternatives ==
    <<"==", "!=", "<=", ">=+=", "-=", "*=", "/=", "%=", "&&", "||",
      "<<=", ">>=", "&=", "|=", "^=", "<<", ">>", "">>

BinaryOperatorPattern(c) == FirstAlternative(BinaryAlternatives, c)

\* The one-character operators: a character class, in which re.VERBOSE
\* keeps the blanks and line breaks of the source.
OneCharOperators ==
    {" ", "\n", "+", "-", "*", "/", "%", "^", "&", "|", "<", ">", "="}

OneCharOperatorPattern(c) ==
    IF CharAt(c) \in OneCharOperators THEN Some(CharAt(c)) ELSE None

GroupingAlternatives ==
    <<"(", ")", "[", "]", "{", "}", "::", ",", ";", ".", "?", ":">>

GroupingPattern(c) == FirstAlternative(GroupingAlternatives, c)

\* the groups of _TOKEN_PATTERNS, in order
TokenPatterns ==
    <<"number", "keyword", "identifier", "comment", "unary_operator",
      "binary_operator", "binary_operator", "grouping">>

\* _match_pattern(pattern), for the p-th pattern, with the cursor at c
match_pattern(p, c) ==
    CASE p = 1 -> NumberPattern(c)
      [] p = 2 -> KeywordPattern(c)
      [] p = 3 -> IdentifierPattern(c)
      [] p = 4 -> CommentPattern(c)
      [] p = 5 -> UnaryOperatorPattern(c)
      [] p = 6 -> BinaryOperatorPattern(c)
      [] p = 7 -> OneCharOperatorPattern(c)
      [] p = 8 -> GroupingPattern(c)

\* `if value`: a match that is neither None nor the empty string
Truthy(t) == t.value # None /\ Val(t.value) # ""

\* token_values: the (group, value) pairs of the patterns that matched
token_values(c) ==
    LET all == [p \in 1..Len(TokenPatterns) |->
                  [group |-> TokenPatterns[p], value |-> match_pattern(p, c)]]
        kept == SelectSeq(all, Truthy)
    IN  [k \in 1..Len(kept) |->
           [group |-> kept[k].group, value |-> Val(kept[k].value)]]

\* list.sort(key=len of the value, reverse=True): stable, longest first
RECURSIVE InsertByLength(_, _)
InsertByLength(t, sorted) ==
    IF sorted = <<>> THEN <<t>>
    ELSE IF Len(t.value) > Len(Head(sorted).value) THEN <<t>> \o sorted
    ELSE <<Head(sorted)>> \o InsertByLength(t, Tail(sorted))

RECURSIVE SortLongestFirst(_)
SortLongestFirst(seq) ==
    IF seq = <<>> THEN <<>>
    ELSE InsertByLength(seq[Len(seq)],
                        SortLongestFirst(SubSeq(seq, 1, Len(seq) - 1)))

\* the pair the token is made from: token_values[0] after the sort
\* (faulty variant: the sort is not reversed)
MaximalMunch_ShortestFirst(tv) ==
    LET sorted == SortLongestFirst(tv) IN sorted[Len(sorted)]

MaximalMunch(tv) == Head(SortLongestFirst(tv))

\* the cursor after `for _ in range(len(value) - 1): self._advance_cursor()`
\* (faulty variant: range(len(value)))
TokenEnd_OnePast(st, value) == AdvanceBy(st, Len(value))

TokenEnd(st, value) == AdvanceBy(st, Len(value) - 1)

\* _get_next_token()
get_next_token(st) ==
    LET s == consume_string(st)
        m == consume_multiline_comment(st)
        tv == token_values(st.cursor)
    IN  IF s.kind # "none" THEN s
        ELSE IF m.kind # "none" THEN m
        ELSE IF tv = <<>>
               THEN [kind |-> "ValueError",
                     message |-> Message("Couldn't parse token", st),
                     st |-> st]
        ELSE LET t == MaximalMunch(tv)
                 last == TokenEnd(st, t.value)
             IN  [kind |-> "token",
                  token |-> [type |-> t.group,
                             value |-> t.value,
                             start |-> position(st),
                             end |-> position(last)],
                  st |-> last]

(***************************************************************************)
(* tokenize                                                                *)
(***************************************************************************)
TokenizerInit ==
    /\ code \in CodeInputs
    /\ string = <<>>
    /\ cursor = 0
    /\ row = 0
    /\ column = 0
    /\ tpc = "new"
    /\ yielded = <<>>
    /\ result = None
    /\ raised = None
    /\ origins = <<>>

\* `assert "\t" not in string`: whether the assertion passes
\* (faulty variant: the assertion is left out)
NoTabAsserted_NoCheck(cs) == TRUE

NoTabAsserted(cs) == ~\E k \in 1..Len(cs) : cs[k] = "\t"

\* _Tokenizer.__init__(string)
Tokenizer_init ==
    /\ tpc = "new"
    /\ IF ~NoTabAsserted(code)
         THEN tpc' = "AssertionError" /\ string' = string
         ELSE tpc' = "whitespace" /\ string' = code \o <<"\n">>
    /\ cursor' = 0
    /\ row' = 0
    /\ column' = 0
    /\ UNCHANGED <<code, yielded, result, raised, origins>>
    /\ UNCHANGED <<mvars, lvars, rvars, cvars>>

\* while self._consume_whitespace(): ... ; when it returns False the
\* generator ends and list(...) returns the tokens
tokenize_consume_whitespace ==
    /\ tpc = "whitespace"
    /\ \E r \in {consume_whitespace([cursor |-> cursor, row |-> row,
                                       column |-> column])} :
           /\ cursor' = r.st.cursor
           /\ row' = r.st.row
           /\ column' = r.st.column
           /\ IF r.more
                THEN tpc' = "token" /\ result' = result
                ELSE tpc' = "done" /\ result' = Some(yielded)
    /\ UNCHANGED <<code, string, yielded, raised, origins>>
    /\ UNCHANGED <<mvars, lvars, rvars, cvars>>

\* token = self._get_next_token(); yield token; self._advance_cursor()
tokenize_get_next_token ==
    /\ tpc = "token"
    /\ \E r \in {get_next_token([cursor |-> cursor, row |-> row,
                                   column |-> column])} :
           IF r.kind = "token"
             THEN LET st == advance_cursor(r.st)
                  IN  /\ yielded' = Append(yielded, r.token)
                      /\ origins' = Append(origins, cursor)
                      /\ cursor' = st.cursor
                      /\ row' = st.row
                      /\ column' = st.column
                      /\ tpc' = "whitespace"
                      /\ raised' = raised
             ELSE /\ tpc' = r.kind
                  /\ raised' = Some(r.message)
                  /\ cursor' = r.st.cursor
                  /\ row' = r.st.row
                  /\ column' = r.st.column
                  /\ UNCHANGED <<yielded, origins>>
    /\ UNCHANGED <<code, string, result>>
    /\ UNCHANGED <<mvars, lvars, rvars, cvars>>

NextTokenize ==
    \/ Tokenizer_init
    \/ tokenize_consume_whitespace
    \/ tokenize_get_next_token

(***************************************************************************)
(* match_tokens as a function of its arguments                             *)
(* A predicate is given by the set of indices whose token it accepts; a    *)
(* match is the pair [lo, hi] that stands for tokens[lo:hi+1].             *)
(***************************************************************************)
\* the for loop of the general search, entered with j = jj and i = ii: the
\* value of i when the loop is left, and what was yielded
RECURSIVE scan_ahead(_, _, _, _, _, _)
scan_ahead(n, SI, EI, la, ii, jj) ==
    IF ~(jj < n) THEN [i |-> ii, yield |-> <<>>]
    ELSE LET s == IF jj \in SI THEN jj ELSE ii
         IN  IF jj \in EI
               THEN [i |-> jj + la,
                     yield |-> IF jj + la < n
                                 THEN <<[lo |-> s, hi |-> jj + la]>>
                                 ELSE <<>>]
               ELSE scan_ahead(n, SI, EI, la, s, jj + 1)

\* the exact-length path at i = ii: what is yielded (the slice
\* tokens[ii:hi+1], empty when hi < ii)
exact_path(im, n, EI, la, ii, jj) ==
    LET end_token == IF jj >= 0 THEN jj ELSE n + jj
    IN  IF im = "module"
          THEN IF end_token \in EI THEN <<[lo |-> ii, hi |-> jj]>> ELSE <<>>
          ELSE IF end_token \in EI /\ jj + la < n
                 THEN <<[lo |-> ii, hi |-> jj + la]>>
                 ELSE <<>>

\* the while loop from i = ii: everything yielded from there on
RECURSIVE match_from(_, _, _, _, _, _, _)
match_from(im, n, SI, EI, la, len, ii) ==
    IF ~(ii < n) THEN <<>>
    ELSE IF ii \notin SI THEN match_from(im, n, SI, EI, la, len, ii + 1)
    ELSE IF len # None
      THEN LET jj == ii + Val(len) - 1
           IN  IF ~(-n <= jj /\ jj < n) THEN <<>>
               ELSE exact_path(im, n, EI, la, ii, jj)
                      \o match_from(im, n, SI, EI, la, len, ii + 1)
      ELSE LET r == scan_ahead(n, SI, EI, la, ii, ii)
           IN  r.yield \o match_from(im, n, SI, EI, la, len, r.i + 1)

\* list(match_tokens(tokens, start=, end=, lookahead=, length=)) for n
\* tokens, by the implementation im; end has been defaulted by the caller
match_spans(im, n, SI, EI, la, len) ==
    IF im = "module" /\ len # None /\ ~(Val(len) > 0 /\ la = 0)
      THEN [raised |-> "AssertionError", spans |-> <<>>]
      ELSE [raised |-> "", spans |-> match_from(im, n, SI, EI, la, len, 0)]

\* match_regex(regex) for a regex that accepts exactly the values in S, and
\* match_type(type), each as the set of indices of ts it accepts
match_regex(ts, S) == {k \in 0..(Len(ts) - 1) : At(ts, k).value \in S}

match_type(ts, type) == {k \in 0..(Len(ts) - 1) : At(ts, k).type = type}

\* list(match_tokens(ts, start=, end=)) as the rules call it: the package's
\* general search, each match the list of its tokens
match_tokens(ts, SI, EI) ==
    LET r == match_spans("package", Len(ts), SI, EI, 0, None).spans
    IN  [k \in 1..Len(r) |-> Slice(ts, r[k].lo, r[k].hi)]

(***************************************************************************)
(* Registered functions (lint381/c.py, lint381/cpp.py)                     *)
(***************************************************************************)
\* longest token sequence given to a registered function on its own
MaxRuleTokens == 5

Word_include == <<"#", "i", "n", "c", "l", "u", "d", "e">>

\* "u", a string literal
Word_user == <<"\"", "u", "\"">>

\* 'c', a character literal
Word_character == <<"'", "c", "'">>

Word_catch == <<"c", "a", "t", "c", "h">>

Word_enum == <<"e", "n", "u", "m">>

Word_NULL == <<"N", "U", "L", "L">>

Word_float == <<"f", "l", "o", "a", "t">>

Word_eq == <<"=", "=">>

\* the functions modelled, of those c.py and cpp.py register
RegisteredRules ==
    {"comparison_to_null", "enum_members_all_caps",
     "user_includes_before_system_includes", "catch_exception_by_value"}

\* the words a token sequence given to func is made of
RuleWords(f) ==
    CASE f = "comparison_to_null" ->
            {Word_eq, <<"(">>, <<")">>, Word_NULL, <<"x">>}
      [] f = "enum_members_all_caps" ->
            {Word_enum, <<"{">>, <<"}">>, <<",">>, <<"a">>, <<"A">>}
      [] f = "user_includes_before_system_includes" ->
            {Word_include, Word_user, Word_character, <<"<">>, <<">">>}
      [] f = "catch_exception_by_value" ->
            {Word_catch, <<"(">>, <<")">>, <<"&">>, <<"e">>}

\* every spelling whose characters a registered function looks at
Vocabulary ==
    UNION {RuleWords(f) : f \in RegisteredRules}
       \cup {Word_float, <<"h">>, <<".">>, <<";">>}

\* the characters of a token's value
Chars(value) == CHOOSE w \in Vocabulary : Join(w) = value

\* the type tokenize gives a word that stands alone
TypeOf(w) ==
    IF w[1] \in {"\"", "'"} THEN "string"
    ELSE IF w \in KeywordWords THEN "keyword"
    ELSE IF w[1] \in Letters \cup {"#"} THEN "identifier"
    ELSE IF Join(w) \in {GroupingAlternatives[k] :
                            k \in 1..Len(GroupingAlternatives)}
      THEN "grouping"
    ELSE "binary_operator"

\* tokenize of the words ws written on one line with one space between
\* them; col is the column of the first
RECURSIVE Lexed(_, _)
Lexed(ws, col) ==
    IF ws = <<>> THEN <<>>
    ELSE <<[type |-> TypeOf(Head(ws)),
            value |-> Join(Head(ws)),
            start |-> [row |-> 0, column |-> col],
            end |-> [row |-> 0, column |-> col + Len(Head(ws)) - 1]]>>
           \o Lexed(Tail(ws), col + Len(Head(ws)) + 1)

\* Error(message=, tokens=)
Error(message, toks) == [message |-> message, tokens |-> toks]

\* what one call of a rule's body did: the errors it yielded, the exception
\* that left it ("" for none), and the locals that outlive it
Yielded(es, flag) == [errors |-> es, raised |-> "", started |-> flag]

Raised(exception, flag) ==
    [errors |-> <<>>, raised |-> exception, started |-> flag]

\* c.py comparison_to_null, on one match
comparison_to_null(match) ==
    IF IndexError(match, 0) \/ IndexError(match, 1) \/ IndexError(match, 2)
      THEN Raised("IndexError", FALSE)
    ELSE LET operator == At(match, 0)
             operand == At(match, 1)
             next_token == At(match, 2)
         IN  IF next_token.value # ")" THEN Yielded(<<>>, FALSE)
             ELSE IF operator.value \in {"==", "!="}
                     /\ operand.value \in {"'\\0'", "NULL"}
               THEN Yielded(<<Error("Comparison to " \o operand.value
                                       \o " should be avoided",
                                    <<operator, operand>>)>>, FALSE)
             ELSE Yielded(<<>>, FALSE)

\* c.py prohibited_types, on one match
prohibited_types(match) ==
    LET type == At(match, 0)
    IN  Yielded(<<Error("Prohibited type '" \o type.value \o "'",
                        <<type>>)>>, FALSE)

\* str.isupper(): some cased character, and no lowercase one
isupper(value) ==
    LET cs == Chars(value)
        Lower == {"a", "b", "c", "d", "e", "f", "g", "h", "i", "j", "k",
                  "l", "m", "n", "o", "p", "q", "r", "s", "t", "u", "v",
                  "w", "x", "y", "z"}
    IN  /\ \E k \in 1..Len(cs) : cs[k] \in (Letters \ {"_"}) \ Lower
        /\ \A k \in 1..Len(cs) : cs[k] \notin Lower

\* the errors of the loop over the enum members
RECURSIVE enum_member_errors(_)
enum_member_errors(members) ==
    IF members = <<>> THEN <<>>
    ELSE LET enum_member == At(Head(members), 0)
         IN  (IF ~isupper(enum_member.value)
                THEN <<Error("Enum member '" \o enum_member.value
                                \o "' should be all-caps",
                             <<enum_member>>)>>
                ELSE <<>>)
               \o enum_member_errors(Tail(members))

\* c.py enum_members_all_caps, on one match
enum_members_all_caps(match) ==
    LET enum_body == match_tokens(match, match_regex(match, {"{"}),
                                  match_regex(match, {"}"}))
    IN  IF IndexError(enum_body, 0) THEN Raised("IndexError", FALSE)
        ELSE LET body == At(enum_body, 0)
             IN  Yielded(enum_member_errors(
                             match_tokens(body,
                                          match_type(body, "identifier"),
                                          match_regex(body, {",", "}"}))),
                         FALSE)

\* Python's match[lo:hi] for 0 <= lo and hi < 0
SliceFromEnd(s, lo, hi) == Slice(s, lo, Len(s) + hi - 1)

\* cpp.py catch_exception_by_value, on one match
catch_exception_by_value(match) ==
    LET exception == SliceFromEnd(match, 2, -1)
    IN  IF [k \in 1..Len(exception) |-> exception[k].value]
             = <<".", ".", ".">>
          THEN Yielded(<<>>, FALSE)
        ELSE IF ~\E k \in 1..Len(exception) :
                    \E c \in 1..Len(Chars(exception[k].value)) :
                        Chars(exception[k].value)[c] = "&"
          THEN Yielded(<<Error("Catch exceptions by reference, not value",
                               exception)>>, FALSE)
        ELSE Yielded(<<>>, FALSE)

\* c.py _find_includes: the includes found from index ii on
RECURSIVE find_includes_from(_, _)
find_includes_from(ts, ii) ==
    IF ~(ii < Len(ts) - 1) THEN <<>>
    ELSE IF At(ts, ii).value # "#include" THEN find_includes_from(ts, ii + 1)
    ELSE IF At(ts, ii + 1).type = "string"
      THEN <<Slice(ts, ii, ii + 1)>> \o find_includes_from(ts, ii + 1)
    ELSE LET rest == Slice(ts, ii + 1, Len(ts) - 1)
             angle_include == match_tokens(rest, match_regex(rest, {"<"}),
                                           match_regex(rest, {">"}))
         IN  (IF angle_include = <<>>
                THEN <<>>
                ELSE <<(<<At(ts, ii)>> \o angle_include[1])>>)
               \o find_includes_from(ts, ii + 1)

_find_includes(ts) == find_includes_from(ts, 0)

\* str.strip('"') of a sequence of characters
RECURSIVE strip(_)
strip(cs) ==
    IF cs = <<>> THEN cs
    ELSE IF Head(cs) = "\"" THEN strip(Tail(cs))
    ELSE IF cs[Len(cs)] = "\"" THEN strip(SubSeq(cs, 1, Len(cs) - 1))
    ELSE cs

\* c.py user_includes_before_system_includes, on one include
user_includes_before_system_includes(include, flag) ==
    LET include_type == Chars(At(include, 1).value)[1]
    IN  IF include_type \notin {"<", "\""} THEN Raised("AssertionError", flag)
        ELSE IF include_type = "<" THEN Yielded(<<>>, TRUE)
        ELSE IF flag
          THEN Yielded(<<Error("User include '"
                                  \o Join(strip(Chars(At(include, 1).value)))
                                  \o "' should be before system includes",
                               Slice(include, 1, Len(include) - 1))>>, flag)
        ELSE Yielded(<<>>, flag)

\* what the loop of the function f runs over: the matches that
\* with_matched_tokens passes one by one, or the includes
Items(f, ts) ==
    CASE f = "comparison_to_null" ->
            match_tokens(ts, match_regex(ts, {"==", "!="}),
                         match_regex(ts, {")"}))
      [] f = "enum_members_all_caps" ->
            match_tokens(ts, match_regex(ts, {"enum"}),
                         match_regex(ts, {"}"}))
      [] f = "catch_exception_by_value" ->
            match_tokens(ts, match_regex(ts, {"catch"}),
                         match_regex(ts, {")"}))
      [] f = "user_includes_before_system_includes" -> _find_includes(ts)
      [] f = "prohibited_types" ->
            match_tokens(ts, match_regex(ts, {"unsigned", "float"}),
                         match_regex(ts, {"unsigned", "float"}))

\* the body of f on one item
Body(f, item, flag) ==
    CASE f = "comparison_to_null" -> comparison_to_null(item)
      [] f = "enum_members_all_caps" -> enum_members_all_caps(item)
      [] f = "catch_exception_by_value" -> catch_exception_by_value(item)
      [] f = "user_includes_before_system_includes" ->
            user_includes_before_system_includes(item, flag)
      [] f = "prohibited_types" -> prohibited_types(item)

\* f run to its end over items: the errors yielded before it returned or
\* raised, and the exception
RECURSIVE RunRule(_, _, _)
RunRule(f, items, flag) ==
    IF items = <<>> THEN Yielded(<<>>, flag)
    ELSE LET r == Body(f, Head(items), flag)
         IN  IF r.raised # "" THEN r
             ELSE LET rest == RunRule(f, Tail(items), r.started)
                  IN  [errors |-> r.errors \o rest.errors,
                       raised |-> rest.raised,
                       started |-> rest.started]

RuleInit ==
    /\ func \in RegisteredRules
    /\ \E ws \in SeqsUpTo(RuleWords(func), MaxRuleTokens) :
           source = Some([filename |-> "code.cpp", tokens |-> Lexed(ws, 0)])
    /\ pending = <<>>
    /\ started_system_includes = FALSE
    /\ rule_yielded = <<>>
    /\ rpc = "call"

\* func(source) is called and its loop begins
rule_call ==
    /\ rpc = "call"
    /\ pending' = Items(func, Val(source).tokens)
    /\ rpc' = "for"
    /\ UNCHANGED <<func, source, started_system_includes, rule_yielded>>
    /\ UNCHANGED <<mvars, tvars, lvars, cvars>>

\* one iteration of the loop: the body runs on the next match or include
rule_for ==
    /\ rpc = "for"
    /\ pending # <<>>
    /\ \E r \in {Body(func, Head(pending), started_system_includes)} :
           IF r.raised # ""
             THEN /\ rpc' = r.raised
                  /\ UNCHANGED <<pending, started_system_includes,
                                 rule_yielded>>
             ELSE /\ rule_yielded' = rule_yielded \o r.errors
                  /\ started_system_includes' = r.started
                  /\ pending' = Tail(pending)
                  /\ rpc' = rpc
    /\ UNCHANGED <<func, source>>
    /\ UNCHANGED <<mvars, tvars, lvars, cvars>>

\* the loop is over: the generator ends
rule_return ==
    /\ rpc = "for"
    /\ pending = <<>>
    /\ rpc' = "returned"
    /\ UNCHANGED <<func, source, pending, started_system_includes,
                   rule_yielded>>
    /\ UNCHANGED <<mvars, tvars, lvars, cvars>>

NextRule ==
    \/ rule_call
    \/ rule_for
    \/ rule_return

(***************************************************************************)
(* Linter (lint381/linter.py)                                              *)
(***************************************************************************)
\* most functions registered with one Linter
MaxRules == 3

\* The registered functions.  complain is the function of the class's
\* docstring: one Error for every token whose value is foo.  prohibited_types
\* is the rule of c.py: one Error for every token whose value is unsigned or
\* float (match_tokens with start alone yields each such token by itself).
Rules == {"complain", "prohibited_types"}

Example_code == <<"c", "o", "d", "e">>

\* foo float foo
Example_foo_float_foo ==
    <<"f", "o", "o", " ", "f", "l", "o", "a", "t", " ", "f", "o", "o">>

\* float foo
Example_float_foo == <<"f", "l", "o", "a", "t", " ", "f", "o", "o">>

\* "a, a literal that is not closed
Example_unterminated == <<"\"", "a">>

\* the code given to lint
LintCodes ==
    {<<>>, Example_code, Example_foo_float_foo, Example_float_foo,
     Example_backtick, Example_unterminated, Example_tab}

\* the tokens of ts whose value is in S, each made into an Error
RECURSIVE Flag(_, _, _)
Flag(ts, S, message) ==
    IF ts = <<>> THEN <<>>
    ELSE (IF Head(ts).value \in S THEN <<Error(message, <<Head(ts)>>)>>
                                  ELSE <<>>)
           \o Flag(Tail(ts), S, message)

\* f(source_code) run to its end: the errors it yields and the exception
\* that leaves it ("" for none)
Outcome(f, src) ==
    CASE f = "complain" ->
            Yielded(Flag(src.tokens, {"foo"}, "foo not allowed"), FALSE)
      [] OTHER -> RunRule(f, Items(f, src.tokens), FALSE)

\* list(func(source_code)): the errors a registered function yields
Apply(f, src) == Outcome(f, src).errors

LinterInit ==
    /\ linters = <<>>
    /\ filename = "code.cpp"
    /\ lpc = "new"
    /\ source_code = None
    /\ errors = <<>>
    /\ lint_result = None
    /\ applied = <<>>
    /\ tokenize_calls = 0

\* Linter.register(func)
Linter_register ==
    /\ lpc = "new"
    /\ Len(linters) < MaxRules
    /\ \E f \in Rules : linters' = Append(linters, f)
    /\ UNCHANGED <<filename, lpc, source_code, errors, lint_result, applied,
                   tokenize_calls>>
    /\ UNCHANGED <<mvars, tvars, rvars, cvars>>

\* lint(filename, code) is called: errors = [], and tokenize(code) begins
lint_call ==
    /\ lpc = "new"
    /\ tpc = "idle"
    /\ errors' = <<>>
    /\ tpc' = "new"
    /\ tokenize_calls' = tokenize_calls + 1
    /\ lpc' = "tokenize"
    /\ UNCHANGED <<linters, filename, source_code, lint_result, applied>>
    /\ UNCHANGED <<code, string, cursor, row, column, yielded, result, raised,
                   origins>>
    /\ UNCHANGED <<mvars, rvars, cvars>>

\* tokenize(code) returned: source_code = SourceCode(filename, tokens)
lint_tokenized ==
    /\ lpc = "tokenize"
    /\ tpc = "done"
    /\ source_code' = Some([filename |-> filename, tokens |-> Val(result)])
    /\ lpc' = "for"
    /\ UNCHANGED <<linters, filename, errors, lint_result, applied,
                   tokenize_calls>>
    /\ UNCHANGED <<mvars, tvars, rvars, cvars>>

\* tokenize(code) raised: the exception leaves lint
lint_raise ==
    /\ lpc = "tokenize"
    /\ tpc \in {"ValueError", "AssertionError"}
    /\ lpc' = tpc
    /\ UNCHANGED <<linters, filename, source_code, errors, lint_result,
                   applied, tokenize_calls>>
    /\ UNCHANGED <<mvars, tvars, rvars, cvars>>

\* the function the for loop takes next
\* (faulty variant: the functions are taken last to first)
NextLinter_Reversed == linters[Len(linters) - Len(applied)]

NextLinter == linters[Len(applied) + 1]

\* one iteration of `for func in self.linters`:
\* errors.extend(func(source_code))
lint_for ==
    /\ lpc = "for"
    /\ Len(applied) < Len(linters)
    /\ errors' = errors \o Apply(NextLinter, Val(source_code))
    /\ applied' = Append(applied, [func |-> NextLinter,
                                   source |-> Val(source_code)])
    /\ lpc' = IF Outcome(NextLinter, Val(source_code)).raised = ""
                THEN lpc
                ELSE Outcome(NextLinter, Val(source_code)).raised
    /\ UNCHANGED <<linters, filename, source_code, lint_result,
                   tokenize_calls>>
    /\ UNCHANGED <<mvars, tvars, rvars, cvars>>

\* the for loop is over: return errors
lint_return ==
    /\ lpc = "for"
    /\ Len(applied) = Len(linters)
    /\ lint_result' = Some(errors)
    /\ lpc' = "returned"
    /\ UNCHANGED <<linters, filename, source_code, errors, applied,
                   tokenize_calls>>
    /\ UNCHANGED <<mvars, tvars, rvars, cvars>>

NextLint ==
    \/ Linter_register
    \/ lint_call
    \/ Tokenizer_init
    \/ tokenize_consume_whitespace
    \/ tokenize_get_next_token
    \/ lint_tokenized
    \/ lint_raise
    \/ lint_for
    \/ lint_return

(***************************************************************************)
(* main (lint381/__main__.py)                                              *)
(***************************************************************************)
\* most files given on the command line
MaxFiles == 2

\* _LINTERS[lang].linters: the functions modelled, in the order in which
\* c.py and cpp.py register them.  (cpp.py also registers
\* c.module_header_not_first, a name c.py does not define; the model takes
\* the cpp Linter as it is once that name resolves to a function that
\* yields nothing.)
_LINTERS(l) ==
    CASE l = "c" ->
            <<"prohibited_types", "comparison_to_null",
              "enum_members_all_caps",
              "user_includes_before_system_includes">>
      [] l = "cpp" ->
            <<"prohibited_types", "user_includes_before_system_includes",
              "catch_exception_by_value">>

\* #include<h>#include"u" float
Example_includes ==
    Word_include \o <<"<", "h", ">">> \o Word_include \o Word_user
       \o <<" ">> \o Word_float

\* catch()
Example_catch == Word_catch \o <<"(", ")">>

\* enum}
Example_enum == Word_enum \o <<"}">>

\* the contents of the files given to main
MainCodes ==
    {Example_code, Example_float_foo, Example_backtick, Example_tab,
     Example_includes, Example_catch, Example_enum}

\* str.replace("\t", " " * 4)
RECURSIVE replace_tabs(_)
replace_tabs(cs) ==
    IF cs = <<>> THEN <<>>
    ELSE (IF Head(cs) = "\t" THEN <<" ", " ", " ", " ">> ELSE <<Head(cs)>>)
           \o replace_tabs(Tail(cs))

\* os.path.basename(file.name) of the k-th file
basename(k) == "file" \o ToString(k)

\* len(code.splitlines()[r]): the length of line r of cs
RECURSIVE LineLength(_, _)
LineLength(cs, r) ==
    IF cs = <<>> THEN 0
    ELSE IF Head(cs) = "\n"
      THEN IF r = 0 THEN 0 ELSE LineLength(Tail(cs), r - 1)
    ELSE (IF r = 0 THEN 1 ELSE 0) + LineLength(Tail(cs), r)

\* what _print_error and _print_tokens print for one error
Echo(error, name, cs) ==
    LET location == At(error.tokens, 0).start
        last == At(error.tokens, -1).end
    IN  [filename |-> name,
         row |-> location.row + 1,
         column |-> location.column + 1,
         message |-> error.message,
         underline_length |->
             IF location.row = last.row
               THEN (last.column - location.column) + 1
               ELSE LineLength(cs, location.row) - location.column]

\* `for error in errors`: what is printed, and whether error.tokens[0]
\* raised IndexError on the way
RECURSIVE PrintErrors(_, _, _)
PrintErrors(es, name, cs) ==
    IF es = <<>> THEN [echoed |-> <<>>, raised |-> ""]
    ELSE IF IndexError(Head(es).tokens, 0)
      THEN [echoed |-> <<>>, raised |-> "IndexError"]
    ELSE LET rest == PrintErrors(Tail(es), name, cs)
         IN  [echoed |-> <<Echo(Head(es), name, cs)>> \o rest.echoed,
              raised |-> rest.raised]

MainInit ==
    /\ lang \in {"c", "cpp"}
    /\ files \in SeqsUpTo(MainCodes, MaxFiles)
    /\ file_index = 0
    /\ had_errors = FALSE
    /\ echoed = <<>>
    /\ exit_status = None
    /\ linted = <<>>
    /\ cpc = "for"

\* the Linter main uses, as it is when main is called
MainLinterInit ==
    /\ linters = _LINTERS(lang)
    /\ filename = ""
    /\ lpc = "idle"
    /\ source_code = None
    /\ errors = <<>>
    /\ lint_result = None
    /\ applied = <<>>
    /\ tokenize_calls = 0

\* `for file in files` takes the next file: the code is read, its tabs are
\* replaced, and linter.lint(filename, code) is called
main_for ==
    /\ cpc = "for"
    /\ file_index < Len(files)
    /\ file_index' = file_index + 1
    /\ code' = replace_tabs(files[file_index + 1])
    /\ filename' = basename(file_index + 1)
    /\ cpc' = "lint"
    /\ lpc' = "new"
    /\ source_code' = None
    /\ errors' = <<>>
    /\ lint_result' = None
    /\ applied' = <<>>
    /\ string' = <<>>
    /\ cursor' = 0
    /\ row' = 0
    /\ column' = 0
    /\ tpc' = "idle"
    /\ yielded' = <<>>
    /\ result' = None
    /\ raised' = None
    /\ origins' = <<>>
    /\ UNCHANGED <<linters, tokenize_calls>>
    /\ UNCHANGED <<lang, files, had_errors, echoed, exit_status, linted>>
    /\ UNCHANGED <<mvars, rvars>>

\* lint returned: `if errors: had_errors = True`, then every error is
\* printed; error.tokens[0] raises IndexError for an empty token list, and
\* the exception leaves main
main_errors ==
    /\ cpc = "lint"
    /\ lpc = "returned"
    /\ linted' = Append(linted, Val(lint_result))
    /\ had_errors' = (had_errors \/ Val(lint_result) # <<>>)
    /\ \E r \in {PrintErrors(Val(lint_result), filename, code)} :
           /\ echoed' = echoed \o r.echoed
           /\ IF r.raised = ""
                THEN cpc' = "for" /\ exit_status' = exit_status
                ELSE cpc' = r.raised /\ exit_status' = Some(1)
    /\ UNCHANGED <<lang, files, file_index>>
    /\ UNCHANGED <<mvars, tvars, lvars, rvars>>

\* lint raised: main has no handler, so the exception leaves main and the
\* process ends with a traceback and status 1
main_raise ==
    /\ cpc = "lint"
    /\ lpc \in {"ValueError", "AssertionError", "IndexError"}
    /\ cpc' = lpc
    /\ exit_status' = Some(1)
    /\ UNCHANGED <<lang, files, file_index, had_errors, echoed, linted>>
    /\ UNCHANGED <<mvars, tvars, lvars, rvars>>

\* the for loop is over: `if had_errors: raise SystemExit(1)`
main_exit ==
    /\ cpc = "for"
    /\ file_index = Len(files)
    /\ IF had_errors
         THEN cpc' = "SystemExit" /\ exit_status' = Some(1)
         ELSE cpc' = "returned" /\ exit_status' = Some(0)
    /\ UNCHANGED <<lang, files, file_index, had_errors, echoed, linted>>
    /\ UNCHANGED <<mvars, tvars, lvars, rvars>>

NextMain ==
    \/ main_for
    \/ lint_call
    \/ Tokenizer_init
    \/ tokenize_consume_whitespace
    \/ tokenize_get_next_token
    \/ lint_tokenized
    \/ lint_raise
    \/ lint_for
    \/ lint_return
    \/ main_errors
    \/ main_raise
    \/ main_exit

(***************************************************************************)
(* Specifications                                                          *)
(***************************************************************************)
\* no registered function is running on its own
RuleIdle ==
    /\ func = ""
    /\ source = None
    /\ pending = <<>>
    /\ started_system_includes = FALSE
    /\ rule_yielded = <<>>
    /\ rpc = "idle"

\* main is not running
MainIdle ==
    /\ lang = ""
    /\ files = <<>>
    /\ file_index = 0
    /\ had_errors = FALSE
    /\ echoed = <<>>
    /\ exit_status = None
    /\ linted = <<>>
    /\ cpc = "idle"

\* no Linter is in use
LinterIdle ==
    /\ linters = <<>>
    /\ filename = ""
    /\ lpc = "idle"
    /\ source_code = None
    /\ errors = <<>>
    /\ lint_result = None
    /\ applied = <<>>
    /\ tokenize_calls = 0

\* no call of match_tokens is in progress
MatcherIdle ==
    /\ impl = "module"
    /\ tokens = <<>>
    /\ start = {}
    /\ end = None
    /\ lookahead = 0
    /\ length = None
    /\ i = 0
    /\ j = 0
    /\ mpc = "idle"
    /\ matches = <<>>
    /\ candidates = <<>>
    /\ probed = {}
    /\ scan_point = 0

\* no call of tokenize is in progress
TokenizerIdle ==
    /\ code = <<>>
    /\ string = <<>>
    /\ cursor = 0
    /\ row = 0
    /\ column = 0
    /\ tpc = "idle"
    /\ yielded = <<>>
    /\ result = None
    /\ raised = None
    /\ origins = <<>>

InitMatch ==
    MatcherInit /\ TokenizerIdle /\ LinterIdle /\ RuleIdle /\ MainIdle

\* one call of match_tokens
SpecMatch == InitMatch /\ [][NextMatch]_vars

InitTokenize ==
    TokenizerInit /\ MatcherIdle /\ LinterIdle /\ RuleIdle /\ MainIdle

\* one call of tokenize
SpecTokenize == InitTokenize /\ [][NextTokenize]_vars

\* the code lint is called with, before the call
LintCodeInit ==
    /\ code \in LintCodes
    /\ string = <<>>
    /\ cursor = 0
    /\ row = 0
    /\ column = 0
    /\ tpc = "idle"
    /\ yielded = <<>>
    /\ result = None
    /\ raised = None
    /\ origins = <<>>

InitLint ==
    LinterInit /\ LintCodeInit /\ MatcherIdle /\ RuleIdle /\ MainIdle

\* one Linter: registrations, then one call of lint
SpecLint == InitLint /\ [][NextLint]_vars

InitRule ==
    RuleInit /\ MatcherIdle /\ TokenizerIdle /\ LinterIdle /\ MainIdle

\* one call of one registered function
SpecRule == InitRule /\ [][NextRule]_vars

InitMain == MainInit /\ MainLinterInit /\ TokenizerIdle /\ MatcherIdle /\ RuleIdle

\* one run of main
SpecMain == InitMain /\ [][NextMain]_vars

Init == InitMatch \/ InitTokenize \/ InitLint \/ InitRule \/ InitMain

Next == NextMatch \/ NextTokenize \/ NextLint \/ NextRule \/ NextMain

Spec == Init /\ [][Next]_vars

(***************************************************************************)
(* Properties of match_tokens                                              *)
(***************************************************************************)
GeneralSearch == length = None

\* the examples' predicates: start accepts A, end accepts B
EndIsB == end = Some({"B", "AB"})

\* the indices of tokens, as Python counts them
Indices == 0..(Len(tokens) - 1)

\* the least index in S (S is not empty)
Least(S) == CHOOSE k \in S : \A m \in S : k <= m

\* the indices at or after k whose token satisfies start / end
StartsFrom(k) == {m \in Indices : m >= k /\ StartMatches(At(tokens, m))}

EndsFrom(k) == {m \in Indices : m >= k /\ EndMatches(At(tokens, m))}

\* the token indices a yielded slice covers
Covered(m) == {k \in Indices : m.lo <= k /\ k <= m.hi}

\* the slices an exact-length search of n tokens with lookahead la has to
\* yield: one per index k with start(tokens[k]), k+n-1 in range,
\* end(tokens[k+n-1]) and k+n-1+la in range, in increasing k
ExactHits(n, la) ==
    {k \in Indices : /\ StartMatches(At(tokens, k))
                     /\ k + n - 1 + la < Len(tokens)
                     /\ EndMatches(At(tokens, k + n - 1))}

RECURSIVE ExactSlicesFrom(_, _, _)
ExactSlicesFrom(k, n, la) ==
    IF k >= Len(tokens) THEN <<>>
    ELSE IF k \in ExactHits(n, la)
           THEN <<[lo |-> k, hi |-> k + n - 1 + la]>>
                   \o ExactSlicesFrom(k + 1, n, la)
           ELSE ExactSlicesFrom(k + 1, n, la)

\* C1: in general search every span found is the tightest one: before the
\* lookahead extension it starts at a start token, ends at the first end
\* token at or after the first start token of the scan, and holds no other
\* start token; [A, foo, A, foo, B] yields the single match [A, foo, B]
\* that begins at the second A.
C1_TightestSpan ==
    /\ GeneralSearch =>
         \A k \in 1..Len(candidates) :
            LET c == candidates[k]
            IN  /\ StartMatches(At(tokens, c.s))
                /\ EndMatches(At(tokens, c.e))
                /\ StartsFrom(c.from) # {}
                /\ c.e = Least(EndsFrom(Least(StartsFrom(c.from))))
                /\ c.s <= c.e
                /\ \A m \in (c.s + 1)..c.e : ~StartMatches(At(tokens, m))
                /\ c.after = c.before + 1 =>
                     matches[c.after] = [lo |-> c.s, hi |-> c.e + lookahead]
    /\ GeneralSearch => \A n \in 1..Len(matches) :
                           \E k \in 1..Len(candidates) :
                              /\ candidates[k].after = n
                              /\ candidates[k].before = n - 1
    /\ (/\ GeneralSearch
        /\ EndIsB
        /\ mpc = "done"
        /\ lookahead = 0
        /\ tokens = <<"A", "foo", "A", "foo", "B">>)
         => matches = <<[lo |-> 2, hi |-> 4]>>

C1_Witness ==
    /\ GeneralSearch
    /\ EndIsB
    /\ mpc = "done"
    /\ lookahead = 0
    /\ tokens = <<"A", "foo", "A", "foo", "B">>
    /\ matches = <<[lo |-> 2, hi |-> 4]>>
    /\ Slice(tokens, 2, 4) = <<"A", "foo", "B">>

\* the call gives an exact length together with a nonzero lookahead, and
\* the generator has been resumed
LengthWithLookahead == length # None /\ lookahead # 0 /\ mpc # "call"

Rejected == mpc = "AssertionError" /\ matches = <<>> /\ probed = {}

C6_LookaheadOrDiscard ==
    /\ GeneralSearch =>
         \A k \in 1..Len(candidates) :
            LET c == candidates[k]
            IN  IF c.e + lookahead \in Indices
                  THEN /\ c.after = c.before + 1
                       /\ matches[c.after].lo = c.s
                       /\ matches[c.after].hi = c.e + lookahead
                       /\ Len(Slice(tokens, c.s, matches[c.after].hi))
                            = (c.e - c.s + 1) + lookahead
                  ELSE c.after = c.before
    /\ GeneralSearch =>
         Len(matches) = Cardinality({k \in 1..Len(candidates) :
                                       candidates[k].e + lookahead \in Indices})
    /\ (/\ GeneralSearch
        /\ EndIsB
        /\ mpc = "done"
        /\ lookahead = 1
        /\ tokens = <<"A", "B">>)
         => matches = <<>>

C6_Witness ==
    /\ GeneralSearch
    /\ EndIsB
    /\ mpc = "done"
    /\ lookahead = 1
    /\ tokens = <<"A", "B">>
    /\ Len(candidates) = 1
    /\ candidates[1].e = 1
    /\ matches = <<>>

\* C7: with an exact length N >= 1 and lookahead 0 the call yields, in
\* increasing i, exactly tokens[i .. i+N-1] for every i with
\* start(tokens[i]), i+N-1 in range and end(tokens[i+N-1]); an interior
\* start token does not move the start; [A, A, B] with N = 3 yields the
\* one match [A, A, B].
C7_ExactLength ==
    /\ (length # None /\ lookahead = 0 /\ mpc = "done" /\ Val(length) >= 1)
         => matches = ExactSlicesFrom(0, Val(length), 0)
    /\ (length # None /\ lookahead = 0 /\ Val(length) >= 1)
         => /\ mpc # "AssertionError"
            /\ \A n \in 1..Len(matches) :
                  /\ matches[n].hi = matches[n].lo + Val(length) - 1
                  /\ matches[n].lo \in ExactHits(Val(length), 0)
                  /\ n > 1 => matches[n - 1].lo < matches[n].lo
    /\ (length = Some(3) /\ EndIsB /\ lookahead = 0 /\ mpc = "done"
          /\ tokens = <<"A", "A", "B">>)
         => matches = <<[lo |-> 0, hi |-> 2]>>

C7_Witness ==
    /\ length = Some(3)
    /\ EndIsB
    /\ lookahead = 0
    /\ mpc = "done"
    /\ tokens = <<"A", "A", "B">>
    /\ matches = <<[lo |-> 0, hi |-> 2]>>

NoSharedIndex ==
    \A a, b \in 1..Len(matches) :
       a # b => Covered(matches[a]) \cap Covered(matches[b]) = {}

\* C8 (as stated): for any call, no two yielded matches share a token index.
C8_Original == NoSharedIndex

\* C8 (amended): in general search (no exact length), for any lookahead, no
\* two yielded matches share a token index; an exact-length search yields
\* one match per qualifying start index, and those may overlap.
C8_NoOverlapInGeneralSearch == GeneralSearch => NoSharedIndex

C8_Witness ==
    /\ GeneralSearch
    /\ lookahead = 1
    /\ mpc = "done"
    /\ Len(matches) = 2
    /\ matches[1].hi + 1 = matches[2].lo

\* an end token is found at index j by the general search
EndFound == mpc = "for" /\ j < Len(tokens) /\ EndMatches(At(tokens, j))

\* C9 (as stated): after an end token is found at index e, scanning resumes
\* at e+1 whatever the lookahead.
C9_Original == [][EndFound => (mpc' = "while" /\ i' = j + 1)]_vars

\* C9 (amended): after an end token is found at index e (yielded or not),
\* scanning resumes at e+L+1, immediately after the end index extended by
\* the lookahead L; this is e+1 only when L = 0.
C9_ResumeAfterExtendedEnd ==
    [][EndFound => (mpc' = "while" /\ i' = j + lookahead + 1)]_vars

C9_Witness ==
    /\ GeneralSearch
    /\ lookahead = 1
    /\ mpc = "while"
    /\ Len(candidates) = 1
    /\ candidates[1].e = 1
    /\ i = 3
    /\ i < Len(tokens)

\* C18: an omitted end becomes start when the call begins; from then on a
\* general search with lookahead 0 yields only single tokens that satisfy
\* start, in increasing order of index, and when it ends it has yielded one
\* for every token that satisfies start.
C18_EndDefaultsToStart ==
    /\ [][(mpc = "call" /\ end = None) => end' = Some(start)]_vars
    /\ []((mpc # "call" /\ end = Some(start) /\ GeneralSearch /\ lookahead = 0)
            => /\ \A n \in 1..Len(matches) :
                     /\ matches[n].lo = matches[n].hi
                     /\ matches[n].lo \in StartsFrom(0)
                     /\ n > 1 => matches[n - 1].lo < matches[n].lo
               /\ mpc = "done"
                    => {matches[n].lo : n \in 1..Len(matches)} = StartsFrom(0))

C18_Witness ==
    /\ mpc = "done"
    /\ end = Some(start)
    /\ GeneralSearch
    /\ lookahead = 0
    /\ tokens = <<"A", "foo", "AB", "B">>
    /\ matches = <<[lo |-> 0, hi |-> 0], [lo |-> 2, hi |-> 2]>>

\* C19 (as stated): every match is a slice tokens[lo .. hi] of the input
\* that lies within it, the matches come in strictly increasing order of
\* lo, and nothing is yielded when no token satisfies start or when no token
\* at or after a start token satisfies end.
C19_Original ==
    /\ \A n \in 1..Len(matches) :
          /\ 0 <= matches[n].lo
          /\ matches[n].lo <= matches[n].hi + 1
          /\ matches[n].hi < Len(tokens)
          /\ n > 1 => matches[n - 1].lo < matches[n].lo
    /\ StartsFrom(0) = {} => matches = <<>>
    /\ (mpc # "call" /\ \A k \in StartsFrom(0) : EndsFrom(k) = {})
          => matches = <<>>

(***************************************************************************)
(* Properties of tokenize                                                  *)
(***************************************************************************)
\* the values of a list of tokens
Values(ts) == [k \in 1..Len(ts) |-> ts[k].value]

CodeIndices == 0..(Len(code) - 1)

\* the (row, column) of the character at index m of the input: the number
\* of line breaks before it, and the number of characters since the last
\* of them
LineBreaksBefore(m) == {n \in 0..(m - 1) : At(code, n) = "\n"}

PositionOf(m) ==
    LET breaks == LineBreaksBefore(m)
        last == CHOOSE n \in breaks : \A o \in breaks : o <= n
    IN  [row |-> Cardinality(breaks),
         column |-> IF breaks = {} THEN m ELSE m - last - 1]

HasIndex(pos) == \E m \in CodeIndices : PositionOf(m) = pos

\* the index of the character at pos, -1 if there is none
IndexOf(pos) ==
    IF HasIndex(pos) THEN CHOOSE m \in CodeIndices : PositionOf(m) = pos
                     ELSE -1

\* the cursor was on a quote or on the two characters that open a block
\* comment
StartsSpecial(c) == CharAt(c) \in {"\"", "'"} \/ Stands("/*", c)

\* C2: at a cursor that starts neither a literal nor a block comment, the
\* token is the match of one of the patterns, carries that pattern's group,
\* and no pattern has a longer match there; a==b gives the three tokens
\* a, ==, b.
C2_MaximalMunch ==
    /\ \A k \in 1..Len(yielded) :
          LET c == origins[k]
              t == yielded[k]
          IN  ~StartsSpecial(c) =>
                 /\ \E p \in 1..Len(TokenPatterns) :
                       /\ match_pattern(p, c) = Some(t.value)
                       /\ TokenPatterns[p] = t.type
                 /\ \A p \in 1..Len(TokenPatterns) :
                       match_pattern(p, c) # None =>
                          Len(Val(match_pattern(p, c))) <= Len(t.value)
    /\ (code = Example_a_eq_b /\ tpc = "done")
         => Values(yielded) = <<"a", "==", "b">>

C2_Witness ==
    /\ code = Example_a_eq_b
    /\ tpc = "done"
    /\ Len(yielded) = 3
    /\ yielded[2].value = "=="
    /\ match_pattern(7, origins[2]) = Some("=")

\* C3: start is the zero-indexed (row, column) of the token's first
\* character and end that of its last character (inclusive), rows counting
\* the line breaks before the character and columns the characters since
\* the last one; in `int main() {\n}\n` the token int runs from (0,0) to
\* (0,2) and } starts and ends at (1,0).
C3_Positions ==
    /\ \A k \in 1..Len(yielded) :
          LET t == yielded[k]
              first == origins[k]
              last == first + Len(t.value) - 1
          IN  /\ first <= last
              /\ last < Len(code)
              /\ t.value = Join(Slice(code, first, last))
              /\ t.start = PositionOf(first)
              /\ t.end = PositionOf(last)
    /\ (code = Example_main /\ tpc = "done")
         => /\ Len(yielded) = 6
            /\ yielded[1] = [type |-> "keyword", value |-> "int",
                             start |-> [row |-> 0, column |-> 0],
                             end |-> [row |-> 0, column |-> 2]]
            /\ yielded[6] = [type |-> "grouping", value |-> "}",
                             start |-> [row |-> 1, column |-> 0],
                             end |-> [row |-> 1, column |-> 0]]

C3_Witness ==
    /\ code = Example_main
    /\ tpc = "done"
    /\ Len(yielded) = 6
    /\ yielded[6].start = [row |-> 1, column |-> 0]
    /\ yielded[6].end = [row |-> 1, column |-> 0]

\* C4: when tokenize succeeds, the tokens are in strictly increasing
\* position and do not overlap (each ends before the next starts), the
\* value of each is the source text from its start to its end, and every
\* character of the input that is not whitespace lies in exactly one token.
C4_OrderedDisjointCover ==
    tpc = "done" =>
       \A lo \in {[k \in 1..Len(yielded) |-> IndexOf(yielded[k].start)]} :
       \A hi \in {[k \in 1..Len(yielded) |-> IndexOf(yielded[k].end)]} :
          /\ result = Some(yielded)
          /\ \A k \in 1..Len(yielded) :
                /\ 0 <= lo[k]
                /\ lo[k] <= hi[k]
                /\ yielded[k].value = Join(Slice(code, lo[k], hi[k]))
          /\ \A k \in 1..(Len(yielded) - 1) : hi[k] < lo[k + 1]
          /\ \A m \in CodeIndices :
                ~IsSpace(At(code, m)) =>
                   Cardinality({k \in 1..Len(yielded) :
                                  lo[k] <= m /\ m <= hi[k]}) = 1

C4_Witness ==
    /\ tpc = "done"
    /\ code = <<"\"", "\n", "\"", "a">>
    /\ Len(yielded) = 2
    /\ yielded[1].end = [row |-> 1, column |-> 0]
    /\ yielded[2].start = [row |-> 1, column |-> 1]

\* C10: each operator of more than one character (==, !=, <=, >=, &&, ||,
\* the compound assignments and the shifts) comes out of tokenize as one
\* token: a<op>b gives the three tokens a, <op>, b.
C10_Original ==
    \A op \in MultiCharOperators :
       (code = <<"a">> \o op \o <<"b">> /\ tpc = "done")
          => Values(yielded) = <<"a", Join(op), "b">>

\* C11 (as stated): each of the 32 keywords, standing alone, comes out as
\* one token of type keyword whose value is the word, and a longer word that
\* begins with a keyword comes out as one identifier.
C11_Original ==
    \A w \in KeywordWords :
       /\ (code = w /\ tpc = "done")
             => /\ Len(yielded) = 1
                /\ yielded[1].type = "keyword"
                /\ yielded[1].value = Join(w)
       /\ (code = w \o <<"x">> /\ tpc = "done")
             => /\ Len(yielded) = 1
                /\ yielded[1].type = "identifier"
                /\ yielded[1].value = Join(w) \o "x"

\* the character at index m of the input, "" outside it
CodeAt(m) == IF m \in CodeIndices THEN At(code, m) ELSE ""

Quotes == {"\"", "'"}

\* how many backslashes stand in a row immediately before index m, inside
\* the literal opened at index open
RECURSIVE BackslashesBefore(_, _)
BackslashesBefore(m, open) ==
    IF m - 1 > open /\ CodeAt(m - 1) = "\\"
      THEN 1 + BackslashesBefore(m - 1, open)
      ELSE 0

\* the character at index m is consumed by an escape: an odd number of
\* backslashes stands before it
Escaped(m, open) == BackslashesBefore(m, open) % 2 = 1

\* the quotes that can close the literal opened at index open: of the
\* opening kind, and not consumed by an escape
ClosersOf(open) ==
    {m \in CodeIndices :
        m > open /\ CodeAt(m) = CodeAt(open) /\ ~Escaped(m, open)}

\* C12: a token that begins at a quote is a string token that runs from the
\* opening quote to the first later quote of the same kind that is not
\* consumed by a backslash escape, both quotes included, whatever stands in
\* between (escaped quotes, escaped backslashes, quotes of the other kind);
\* "foo\"bar\\baz" is one string token from (0,0) to (0,14).
C12_BackslashEscapes ==
    /\ \A k \in 1..Len(yielded) :
          LET open == origins[k]
              t == yielded[k]
          IN  CodeAt(open) \in Quotes =>
                 /\ ClosersOf(open) # {}
                 /\ \A close \in {Least(ClosersOf(open))} :
                       /\ t.type = "string"
                       /\ t.value = Join(Slice(code, open, close))
                       /\ t.start = PositionOf(open)
                       /\ t.end = PositionOf(close)
    /\ (code = Example_backslash /\ tpc \notin {"new", "whitespace", "token"})
         => /\ tpc = "done"
            /\ yielded = <<[type |-> "string", value |-> Join(code),
                            start |-> [row |-> 0, column |-> 0],
                            end |-> [row |-> 0, column |-> 14]]>>

C12_Witness ==
    /\ tpc = "done"
    /\ code = Example_backslash
    /\ Len(yielded) = 1
    /\ yielded[1].value = Join(code)
    /\ Escaped(5, 0)
    /\ ~Escaped(14, 0)

\* the two characters that open a block comment stand at index m
OpensComment(m) == CodeAt(m) = "/" /\ CodeAt(m + 1) = "*"

\* the indices of the `*` of every `*/` that begins after the `/*` at open
CommentClosers(open) ==
    {m \in CodeIndices :
        m >= open + 2 /\ CodeAt(m) = "*" /\ CodeAt(m + 1) = "/"}

\* the next token begins at the cursor, where a literal or a block comment
\* opens that the rest of the input does not close
Unterminated ==
    /\ tpc = "token"
    /\ \/ CodeAt(cursor) \in Quotes /\ ClosersOf(cursor) = {}
       \/ OpensComment(cursor) /\ CommentClosers(cursor) = {}

\* C13 (as stated): when a literal or a block comment is opened and the
\* input ends before its closing delimiter, tokenize raises an error and
\* returns no token sequence, whatever was lexed before.
C13_Original ==
    [][Unterminated => (tpc' = "ValueError" /\ result' = None)]_vars

\* C14 (as stated): a token that begins at `/*` is a comment token running
\* to the `/` of the first `*/` that begins after the `/*`, line breaks
\* included; its start is the position of the opening `/` and its end that
\* of the closing `/`.
C14_Original ==
    \A k \in 1..Len(yielded) :
       LET open == origins[k]
           t == yielded[k]
       IN  OpensComment(open) =>
              /\ CommentClosers(open) # {}
              /\ \A close \in {Least(CommentClosers(open)) + 1} :
                    /\ t.type = "comment"
                    /\ t.value = Join(Slice(code, open, close))
                    /\ t.start = PositionOf(open)
                    /\ t.end = PositionOf(close)

\* the call of tokenize has ended, by returning or by raising
Finished == tpc \notin {"new", "whitespace", "token"}

\* at index c neither a literal nor a block comment begins, and no pattern
\* matches a character there
NoCategory(c) ==
    /\ ~StartsSpecial(c)
    /\ \A p \in 1..Len(TokenPatterns) : match_pattern(p, c) \in {None, Some("")}

\* the ValueError raised for the character at index c
CouldNotParse(c) ==
    Some([text |-> "Couldn't parse token",
          at |-> [line |-> PositionOf(c).row + 1,
                  column |-> PositionOf(c).column + 1]])

\* C15: when no pattern matches at the cursor, the call ends at once with
\* a ValueError that names the line and column of the character at the
\* cursor, both counted from 1; a call that raised returns no tokens; a lone
\* backtick raises at line 1, column 1.
C15_UnlexableCharacter ==
    /\ [][(tpc = "token" /\ NoCategory(cursor))
            => /\ tpc' = "ValueError"
               /\ raised' = CouldNotParse(cursor)
               /\ result' = None]_vars
    /\ [](tpc = "ValueError" => (result = None /\ raised # None))
    /\ []((code = Example_backtick /\ Finished)
            => /\ tpc = "ValueError"
               /\ raised = Some([text |-> "Couldn't parse token",
                                 at |-> [line |-> 1, column |-> 1]]))

C15_Witness ==
    /\ tpc = "ValueError"
    /\ code = <<"a", "\n", "a", "\\">>
    /\ Len(yielded) = 2
    /\ NoCategory(cursor)
    /\ raised = Some([text |-> "Couldn't parse token",
                      at |-> [line |-> 2, column |-> 2]])
    /\ result = None

\* how many word characters stand in a row from index m of the input
RECURSIVE WordRun(_)
WordRun(m) ==
    IF CodeAt(m) \in Letters \cup Digits THEN 1 + WordRun(m + 1) ELSE 0

\* C16: x comes out as the one identifier token x, and #define as the one
\* identifier token #define; in general a letter that no word character
\* follows is a one-character identifier, and a token that begins at # is an
\* identifier made of the # and the whole word after it.
C16_IdentifiersAndDirectives ==
    /\ (code = Example_x /\ Finished)
         => /\ tpc = "done"
            /\ yielded = <<[type |-> "identifier", value |-> "x",
                            start |-> [row |-> 0, column |-> 0],
                            end |-> [row |-> 0, column |-> 0]]>>
    /\ (code = Example_define /\ Finished)
         => /\ tpc = "done"
            /\ yielded = <<[type |-> "identifier", value |-> "#define",
                            start |-> [row |-> 0, column |-> 0],
                            end |-> [row |-> 0, column |-> 6]]>>
    /\ (code = Example_define_macro /\ Finished)
         => /\ tpc = "done"
            /\ Values(yielded) = <<"#define", "_x">>
    /\ \A k \in 1..Len(yielded) :
          LET c == origins[k]
              t == yielded[k]
          IN  /\ (CodeAt(c) \in Letters /\ WordRun(c + 1) = 0)
                   => (t.type = "identifier" /\ t.value = CodeAt(c))
              /\ CodeAt(c) = "#"
                   => /\ t.type = "identifier"
                      /\ CodeAt(c + 1) \in Letters
                      /\ t.value = Join(Slice(code, c, c + WordRun(c + 1)))
    /\ (tpc = "token" /\ CodeAt(cursor) = "#" /\ CodeAt(cursor + 1) \in Letters)
         => ~NoCategory(cursor)

C16_Witness ==
    /\ tpc = "done"
    /\ code = Example_define_macro
    /\ Len(yielded) = 2
    /\ yielded[1].value = "#define"
    /\ yielded[1].type = "identifier"

\* a line comment opens at index m
OpensLineComment(m) == CodeAt(m) = "/" /\ CodeAt(m + 1) = "/"

\* the last index of the line on which index m stands, m not a line break
RECURSIVE LineEnd(_)
LineEnd(m) == IF CodeAt(m + 1) \in {"", "\n"} THEN m ELSE LineEnd(m + 1)

\* C17 (as stated): a token that begins at // is one comment token that
\* runs through the last character of its line, whatever the rest of the
\* line is (nothing at all included), so that no further token begins on
\* that line.
C17_Original ==
    \A k \in 1..Len(yielded) :
       LET open == origins[k]
           t == yielded[k]
       IN  OpensLineComment(open) =>
              /\ t.type = "comment"
              /\ t.value = Join(Slice(code, open, LineEnd(open + 1)))
              /\ t.end = PositionOf(LineEnd(open + 1))
              /\ k < Len(yielded) => origins[k + 1] > LineEnd(open + 1)

(***************************************************************************)
(* Properties of Linter.lint                                               *)
(***************************************************************************)
\* the errors of the first k registered functions on source, in order
RECURSIVE ErrorsOfFirst(_, _)
ErrorsOfFirst(k, src) ==
    IF k = 0 THEN <<>>
    ELSE ErrorsOfFirst(k - 1, src) \o Apply(linters[k], src)

\* C20: lint calls tokenize once; no registered function is called before
\* tokenize has returned; the functions are called in registration order,
\* none twice, each with the one SourceCode made of the filename and the
\* complete token list; lint returns after every function was called once,
\* and returns their errors concatenated in registration order; when
\* tokenize raises, no function is ever called and lint returns nothing.
C20_LintAppliesRulesInOrder ==
    /\ tokenize_calls <= 1
    /\ applied # <<>> =>
          /\ tokenize_calls = 1
          /\ tpc = "done"
          /\ source_code = Some([filename |-> filename, tokens |-> Val(result)])
    /\ Len(applied) <= Len(linters)
    /\ \A k \in 1..Len(applied) :
          /\ applied[k].func = linters[k]
          /\ applied[k].source = Val(source_code)
    /\ lpc \in {"for", "returned"} =>
          errors = ErrorsOfFirst(Len(applied), Val(source_code))
    /\ lpc = "returned" =>
          /\ Len(applied) = Len(linters)
          /\ lint_result = Some(ErrorsOfFirst(Len(linters), Val(source_code)))
    /\ tpc \in {"ValueError", "AssertionError"} =>
          (applied = <<>> /\ lint_result = None)
    /\ lint_result # None => lpc = "returned"

C20_Witness ==
    /\ lpc = "returned"
    /\ code = Example_foo_float_foo
    /\ linters = <<"prohibited_types", "complain", "prohibited_types">>
    /\ Len(applied) = 3
    /\ Len(Val(lint_result)) = 4
    /\ Val(lint_result)[1].message = "Prohibited type 'float'"
    /\ Val(lint_result)[2].message = "foo not allowed"
    /\ Val(lint_result)[3].message = "foo not allowed"
    /\ Val(lint_result)[4].message = "Prohibited type 'float'"

(***************************************************************************)
(* Properties of main, of tokenize's precondition and of the registered    *)
(* functions                                                               *)
(***************************************************************************)
\* how many errors lint returned for the files taken so far
RECURSIVE Diagnostics(_)
Diagnostics(ls) ==
    IF ls = <<>> THEN 0 ELSE Len(Head(ls)) + Diagnostics(Tail(ls))

\* C21 (as stated): when the exit status is decided, every given file has
\* been linted and every diagnostic of every file has been printed; the
\* status is nonzero if some file produced a diagnostic, and 0 if every file
\* was linted with no diagnostic.
C21_Original ==
    exit_status # None =>
        /\ Len(linted) = Len(files)
        /\ Len(echoed) = Diagnostics(linted)
        /\ (\E k \in 1..Len(linted) : linted[k] # <<>>)
              => Val(exit_status) # 0
        /\ (\A k \in 1..Len(linted) : linted[k] = <<>>)
              => Val(exit_status) = 0

\* C22: an input that contains a tab is rejected by the assertion of
\* _Tokenizer.__init__: the call ends in AssertionError with the cursor at
\* 0, no entry to _get_next_token, no token yielded and nothing returned;
\* an input without a tab never ends in AssertionError.
C22_TabRejectedBeforeLexing ==
    /\ ((\E k \in 1..Len(code) : code[k] = "\t") /\ tpc \notin {"new", "idle"})
          => /\ tpc = "AssertionError"
             /\ cursor = 0
             /\ origins = <<>>
             /\ yielded = <<>>
             /\ result = None
    /\ tpc = "AssertionError" => \E k \in 1..Len(code) : code[k] = "\t"

C22_Witness ==
    /\ code = Example_tab
    /\ tpc = "AssertionError"
    /\ yielded = <<>>
    /\ result = None

(***************************************************************************)
(* The general search as a two-state machine                               *)
(***************************************************************************)
\* The machine reads the tokens from index k on, one at a time.  st is
\* SCANNING or IN_SPAN and s is the recorded span start.  A token that
\* satisfies start puts the machine IN_SPAN with that token as the recorded
\* start; a token that satisfies end while the machine is IN_SPAN (the
\* token that started the span included) sends it back to SCANNING, emits
\* the span extended by the lookahead if the extended end lies within the
\* sequence, and reading resumes after the extended end.
RECURSIVE TwoStateMachine(_, _, _)
TwoStateMachine(k, st, s) ==
    IF ~(k < Len(tokens)) THEN <<>>
    ELSE LET armed == StartMatches(At(tokens, k))
             st1 == IF armed THEN "IN_SPAN" ELSE st
             s1 == IF armed THEN k ELSE s
         IN  IF st1 = "IN_SPAN" /\ EndMatches(At(tokens, k))
               THEN (IF k + lookahead < Len(tokens)
                       THEN <<[lo |-> s1, hi |-> k + lookahead]>>
                       ELSE <<>>)
                      \o TwoStateMachine(k + lookahead + 1, "SCANNING", s1)
               ELSE TwoStateMachine(k + 1, st1, s1)

\* C23: in general search the nested loops yield exactly the matches the
\* two-state machine emits, in the same order, and while they run neither
\* scan index lies before the point at which scanning resumed after the
\* last end token.
C23_TwoStateMachine ==
    /\ (GeneralSearch /\ mpc \in {"while", "for"}) => scan_point <= i
    /\ (GeneralSearch /\ mpc = "for") => scan_point <= j
    /\ (GeneralSearch /\ mpc = "done")
          => matches = TwoStateMachine(0, "SCANNING", 0)

C23_Witness ==
    /\ mpc = "done"
    /\ GeneralSearch
    /\ EndIsB
    /\ lookahead = 1
    /\ tokens = <<"A", "A", "B", "foo", "B">>
    /\ matches = <<[lo |-> 1, hi |-> 3]>>
    /\ matches = TwoStateMachine(0, "SCANNING", 0)

\* C24 (as stated): when tokenize fails for one file, the files after it
\* are still taken by main, linted and reported.
C24_Original ==
    (lpc = "ValueError" /\ exit_status # None) => file_index = Len(files)

\* whether toks is a non-empty run of consecutive tokens of ts, in order
IsSlice(toks, ts) ==
    /\ toks # <<>>
    /\ \E lo \in 1..Len(ts) :
          /\ lo + Len(toks) - 1 <= Len(ts)
          /\ SubSeq(ts, lo, lo + Len(toks) - 1) = toks

\* C25 (as stated): every Error a registered function yields carries a
\* non-empty token list that is a contiguous slice, in order, of the
\* tokens of the source.
C25_Original ==
    \A k \in 1..Len(rule_yielded) :
        IsSlice(rule_yielded[k].tokens, Val(source).tokens)

\* C26 (as stated): no registered function raises: each runs to its end on
\* every token sequence.
C26_Original == rpc \notin {"IndexError", "AssertionError"}

\* C27 (as stated): the diagnostics printed for one file are in the order
\* of the positions (row, then column) of their first tokens.
C27_Original ==
    \A a, b \in 1..Len(echoed) :
        (a < b /\ echoed[a].filename = echoed[b].filename)
           => \/ echoed[a].row < echoed[b].row
              \/ /\ echoed[a].row = echoed[b].row
                 /\ echoed[a].column <= echoed[b].column

\* the tokens of the source a registered function runs on
SourceTokens == Val(source).tokens

\* a user include at k: #include followed at once by a "..." literal
UserIncludeAt(k) ==
    /\ k + 1 <= Len(SourceTokens)
    /\ SourceTokens[k].value = "#include"
    /\ SourceTokens[k + 1].type = "string"
    /\ Chars(SourceTokens[k + 1].value)[1] = "\""

\* a system include at k: #include followed at once by <, with a > after
SystemIncludeAt(k) ==
    /\ k + 1 <= Len(SourceTokens)
    /\ SourceTokens[k].value = "#include"
    /\ SourceTokens[k + 1].value = "<"
    /\ \E m \in (k + 2)..Len(SourceTokens) : SourceTokens[m].value = ">"

\* the token lists of the errors the claim expects from index k on
RECURSIVE LateUserIncludes(_)
LateUserIncludes(k) ==
    IF k > Len(SourceTokens) THEN <<>>
    ELSE (IF UserIncludeAt(k) /\ \E m \in 1..(k - 1) : SystemIncludeAt(m)
            THEN <<(<<SourceTokens[k + 1]>>)>>
            ELSE <<>>)
           \o LateUserIncludes(k + 1)

\* C28 (as stated): user_includes_before_system_includes yields one error
\* for each user include that has a system include before it in the file,
\* in file order, and no other error.
C28_Original ==
    (func = "user_includes_before_system_includes" /\ rpc = "returned")
       => [k \in 1..Len(rule_yielded) |-> rule_yielded[k].tokens]
             = LateUserIncludes(1)

(***************************************************************************)
(* Termination of match_tokens, and its two implementations                *)
(***************************************************************************)
\* A bound on the steps match_tokens has left: the tokens yet to be passed
\* by i, then those yet to be passed by j.
Measure ==
    LET n == Len(tokens) + MaxLookahead + 2
    IN  CASE mpc = "call" -> (n + 1) * (n + 1)
          [] mpc = "while" -> (n - i) * (n + 1) + n
          [] mpc = "for" -> (n - i) * (n + 1) + (Len(tokens) - j)
          [] OTHER -> 0

\* C29 (as stated): every step of match_tokens lowers the bound on the
\* steps left, so the call ends; i never decreases, and is greater at the
\* end of each iteration of the while loop than at its beginning; a
\* predicate is evaluated only on an index from 0 to len(tokens) - 1.
C29_Original ==
    /\ [][/\ Measure' < Measure
          /\ i' >= i
          /\ (mpc' = "while" /\ mpc \in {"while", "for"}) => i' > i]_vars
    /\ [](Measure >= 0)
    /\ [](probed \subseteq Indices)

\* the other implementation
Other(im) == IF im = "module" THEN "package" ELSE "module"

\* C30: when length is None, or length >= 1 and lookahead = 0, a call that
\* one implementation runs ends without AssertionError and has yielded
\* exactly what the other implementation yields for the same arguments.
C30_ImplementationsAgree ==
    (length = None \/ (Val(length) >= 1 /\ lookahead = 0))
       => /\ mpc # "AssertionError"
          /\ mpc = "done" =>
                \E r \in {match_spans(Other(impl), Len(tokens),
                                      {k \in Indices : StartMatches(At(tokens, k))},
                                      {k \in Indices : EndMatches(At(tokens, k))},
                                      lookahead, length)} :
                    r.raised = "" /\ r.spans = matches

C30_Witness ==
    /\ mpc = "done"
    /\ impl = "module"
    /\ EndIsB
    /\ length = Some(2)
    /\ lookahead = 0
    /\ tokens = <<"A", "B", "A", "B">>
    /\ matches = <<[lo |-> 0, hi |-> 1], [lo |-> 2, hi |-> 3]>>

=============================================================================
